---- MODULE Spec2Model ----
(***************************************************************************)
(* Model of src/bot.py (MyBot): the per-tick control loop get_output, the   *)
(* kickoff / front-flip logic, the interception selector, the shadow and    *)
(* boost-pad target rules and the speed controller.                         *)
(*                                                                          *)
(* Units.  Positions and speeds are integers in world units (uu, uu/s).     *)
(* Times are integers in centiseconds (0.05 s = 5).  Control axes (steer,   *)
(* throttle, pitch, roll) are integers in thousandths (1.0 = 1000).         *)
(* Lengths are the integer part of the square root; the positions the       *)
(* specifications draw are chosen so that the lengths that are rescaled or  *)
(* added are whole numbers.  Threshold comparisons on lengths are made on   *)
(* the squares and are exact.                                               *)
(***************************************************************************)
EXTENDS Integers, Sequences, FiniteSets, TLC

VARIABLES
    team,             \* self.team, fixed at construction
    active_sequence,  \* self.active_sequence: None or a Sequence object
    pkt,              \* the packet of the last call (None before the first)
    out,              \* what the last call returned and what it evaluated
    in_kickoff,       \* history: the last packet was a kickoff packet
    run_close,        \* history: in the current/last kickoff run the car was
                      \*   close to the ball on its wheels with no sequence running
    run_flips         \* history: begin_front_flip calls in that kickoff run

vars == <<team, active_sequence, pkt, out, in_kickoff, run_close, run_flips>>

\* Python's None, where an object may be absent
None == [none |-> TRUE]

(***************************************************************************)
(* Arithmetic helpers                                                       *)
(***************************************************************************)
Abs(a) == IF a < 0 THEN -a ELSE a
Max(a, b) == IF a >= b THEN a ELSE b
Min(a, b) == IF a <= b THEN a ELSE b

\* a / b rounded toward zero (b > 0)
DivT(a, b) == IF a >= 0 THEN a \div b ELSE -((-a) \div b)

RECURSIVE SqrtIter(_, _)
SqrtIter(n, x) ==
    LET y == (x + n \div x) \div 2
    IN  IF y >= x THEN x ELSE SqrtIter(n, y)

\* integer part of the square root of n >= 0
Sqrt(n) == IF n = 0 THEN 0 ELSE SqrtIter(n, n)

(***************************************************************************)
(* util.vec.Vec3                                                            *)
(***************************************************************************)
Vec3(x, y, z) == [x |-> x, y |-> y, z |-> z]
VSub(a, b) == Vec3(a.x - b.x, a.y - b.y, a.z - b.z)
VAdd(a, b) == Vec3(a.x + b.x, a.y + b.y, a.z + b.z)
VScale(a, k) == Vec3(a.x * k, a.y * k, a.z * k)
flat(a) == Vec3(a.x, a.y, 0)
dot(a, b) == a.x * b.x + a.y * b.y + a.z * b.z
Length2(a) == dot(a, a)
length(a) == Sqrt(Length2(a))
Dist2(a, b) == Length2(VSub(a, b))
dist(a, b) == Sqrt(Dist2(a, b))
\* v.rescale(new_len): v * (new_len / |v|); callers guard |v| >= 1
rescale(v, new_len) ==
    LET l == length(v)
    IN  Vec3(DivT(v.x * new_len, l), DivT(v.y * new_len, l), DivT(v.z * new_len, l))

(***************************************************************************)
(* SimpleControllerState                                                    *)
(***************************************************************************)
SimpleControllerState ==
    [steer |-> 0, throttle |-> 0, pitch |-> 0, roll |-> 0,
     jump |-> FALSE, boost |-> FALSE, handbrake |-> FALSE]

(***************************************************************************)
(* util.sequence: Sequence / ControlStep (the timed sequence executor)      *)
(***************************************************************************)
ControlStep(duration, controls) == [duration |-> duration, controls |-> controls]

Sequence(steps) == [steps |-> steps, elapsed |-> 0, done |-> FALSE]

RECURSIVE SumDurations(_, _)
SumDurations(steps, n) ==
    IF n = 0 THEN 0 ELSE steps[n].duration + SumDurations(steps, n - 1)

\* Walk the ordered step list: the first step whose cumulative-duration
\* window still contains the elapsed time; 0 once the elapsed time exceeds the
\* sum of all durations.
RECURSIVE WalkSteps(_, _, _)
WalkSteps(steps, i, remaining) ==
    IF i > Len(steps) THEN 0
    ELSE IF remaining <= steps[i].duration THEN i
    ELSE WalkSteps(steps, i + 1, remaining - steps[i].duration)

\* Sequence.tick: accumulates the time since the last call; returns the new
\* object state, the command (None = absent) and, for the record, the number
\* of the step the command came from.  A done sequence stays done.
sequence_tick(seq, dt) ==
    IF seq.done THEN [controls |-> None, seq |-> seq, index |-> 0]
    ELSE LET e == seq.elapsed + dt
             i == WalkSteps(seq.steps, 1, e)
         IN  [controls |-> IF i = 0 THEN None ELSE seq.steps[i].controls,
              seq |-> [seq EXCEPT !.elapsed = e, !.done = (i = 0)],
              index |-> i]

(***************************************************************************)
(* begin_front_flip: the step list of the flip                              *)
(***************************************************************************)
FlipA == [SimpleControllerState EXCEPT !.jump = TRUE]
FlipB == [SimpleControllerState EXCEPT !.jump = FALSE]
FlipC == [SimpleControllerState EXCEPT !.jump = TRUE, !.pitch = -1000]
FlipD == SimpleControllerState

\* the flip with its third step cut short
FlipStepsTypo ==
    <<ControlStep(5, FlipA), ControlStep(5, FlipB),
      ControlStep(2, FlipC), ControlStep(80, FlipD)>>

FlipSteps ==
    <<ControlStep(5, FlipA), ControlStep(5, FlipB),
      ControlStep(20, FlipC), ControlStep(80, FlipD)>>

(***************************************************************************)
(* The world the packets describe                                           *)
(***************************************************************************)
\* Orientation of a car standing flat: the heading is one of four yaws.
Yaws == {"N", "E", "S", "W"}

forward(yaw) ==
    CASE yaw = "N" -> Vec3(0, 1, 0)
      [] yaw = "E" -> Vec3(1, 0, 0)
      [] yaw = "S" -> Vec3(0, -1, 0)
      [] yaw = "W" -> Vec3(-1, 0, 0)

right(yaw) ==
    CASE yaw = "N" -> Vec3(-1, 0, 0)
      [] yaw = "E" -> Vec3(0, 1, 0)
      [] yaw = "S" -> Vec3(1, 0, 0)
      [] yaw = "W" -> Vec3(0, -1, 0)

up(yaw) == Vec3(0, 0, 1)

\* util.orientation.relative_location: the target in the car's own frame
relative_location(center, yaw, target) ==
    LET r == VSub(target, center)
    IN  Vec3(dot(r, forward(yaw)), dot(r, right(yaw)), dot(r, up(yaw)))

\* abs(atan2(rel.y, rel.x)) < a, for 0 < a < pi/2 with tan(a) = num / den
abs_angle_less(rel, num, den) ==
    \/ rel.x = 0 /\ rel.y = 0
    \/ rel.x > 0 /\ Abs(rel.y) * den < rel.x * num

\* abs(atan2(rel.y, rel.x)) > a, for pi/2 < a < pi with tan(pi - a) = num / den
abs_angle_greater(rel, num, den) ==
    rel.x < 0 /\ Abs(rel.y) * den < (-rel.x) * num

\* util.drive.steer_toward_target: a signed steer value in [-1, 1], zero when
\* the car faces the target, full lock toward the target's side otherwise.
steer_toward_target(p, target) ==
    LET rel == relative_location(p.car_location, p.yaw, target)
    IN  IF rel.y = 0 /\ rel.x >= 0 THEN 0
        ELSE IF rel.y > 0 \/ (rel.y = 0 /\ rel.x < 0) THEN 1000
        ELSE -1000

\* The six full boost pads of the standard field, in field-info order.
FullBoosts ==
    <<Vec3(-3072, -4096, 73), Vec3(3072, -4096, 73), Vec3(-3584, 0, 73),
      Vec3(3584, 0, 73), Vec3(-3072, 4096, 73), Vec3(3072, 4096, 73)>>

(***************************************************************************)
(* MyBot                                                                    *)
(***************************************************************************)
is_kickoff_origin_3d(p) ==
    /\ p.round_active
    /\ p.ball_location.x = 0 /\ p.ball_location.y = 0 /\ p.ball_location.z = 0

is_kickoff_round_only(p) == p.round_active

is_kickoff(p) ==
    p.round_active /\ p.ball_location.x = 0 /\ p.ball_location.y = 0

effective_speed(car_speed) == Max(700, Min(2300, car_speed + 900))

\* 100 * sqrt(d2) < n, exactly, for integers d2 >= 0 and n
SqrtLess100(d2, n) ==
    LET q == n \div 100
        r == n % 100
    IN  IF n <= 0 THEN FALSE
        ELSE IF d2 < q * q THEN TRUE
        ELSE IF d2 - q * q > 3 * q + 1 THEN FALSE
        ELSE (d2 - q * q) * 10000 < 200 * q * r + r * r

\* estimate_travel_time(car_location, car_speed, target) < time_available + 0.1
\* (time_available in centiseconds)
travel_time_within(car_location, car_speed, target, time_available) ==
    SqrtLess100(Dist2(flat(car_location), flat(target)),
                (time_available + 10) * effective_speed(car_speed))

slice_accepted(sl, car_location, car_speed) ==
    /\ ~(sl.location.z > 250)
    /\ travel_time_within(car_location, car_speed, sl.location, sl.time_ahead)

Stride == 8

\* the scan of select_intercept_slice from (1-based) slice i on: the number of
\* the first accepted slice among i, i + Stride, ...; 0 when there is none
RECURSIVE scan_slices(_, _, _, _, _)
scan_slices(slices, i, step, car_location, car_speed) ==
    IF i > Len(slices) THEN 0
    ELSE IF slice_accepted(slices[i], car_location, car_speed) THEN i
    ELSE scan_slices(slices, i + step, step, car_location, car_speed)

select_intercept_every_slice(ball_prediction, car_location, car_velocity) ==
    IF ball_prediction = None THEN 0
    ELSE scan_slices(ball_prediction.slices, 1, 1, car_location, length(car_velocity))

\* select_intercept_slice: 0 stands for None, i for ball_prediction.slices[i-1]
select_intercept_slice(ball_prediction, car_location, car_velocity) ==
    IF ball_prediction = None THEN 0
    ELSE scan_slices(ball_prediction.slices, 1, Stride, car_location, length(car_velocity))

choose_shadow_position(ball_location, ball_velocity, own_goal) ==
    LET ball_moving_toward_goal ==
            /\ (own_goal.y - ball_location.y) * ball_velocity.y > 0
            /\ Abs(ball_velocity.y) > 150
        d2 == Dist2(flat(ball_location), flat(own_goal))
        ball_distance_from_goal == Sqrt(d2)
        goal_to_ball == flat(VSub(ball_location, own_goal))
        shadow_distance == Max(650, Min(1200, (ball_distance_from_goal * 45) \div 100))
        target == VSub(ball_location, rescale(goal_to_ball, shadow_distance))
    IN  IF ~ball_moving_toward_goal THEN None
        ELSE IF d2 > 3800 * 3800 THEN None
        ELSE IF Length2(goal_to_ball) < 1 THEN None
        ELSE [target EXCEPT !.z = 0]

\* detour_score, in hundredths
detour_score(car_location, pad_location, current_target) ==
    100 * dist(flat(car_location), flat(pad_location))
      + 35 * dist(flat(pad_location), flat(current_target))

pad_eligible_no_range(active, i, car_location, critical_defense) ==
    /\ i \in active
    /\ ~(critical_defense /\ Dist2(flat(car_location), flat(FullBoosts[i])) > 1200 * 1200)

pad_eligible(active, i, car_location, critical_defense) ==
    /\ i \in active
    /\ ~(Dist2(flat(car_location), flat(FullBoosts[i])) > 5000 * 5000)
    /\ ~(critical_defense /\ Dist2(flat(car_location), flat(FullBoosts[i])) > 1200 * 1200)

\* the loop of choose_best_boost from pad i on, with the best pad so far (0 = None)
RECURSIVE best_boost_from(_, _, _, _, _, _)
best_boost_from(i, best, active, car_location, current_target, critical_defense) ==
    IF i > Len(FullBoosts) THEN best
    ELSE IF ~pad_eligible(active, i, car_location, critical_defense)
         THEN best_boost_from(i + 1, best, active, car_location, current_target, critical_defense)
    ELSE IF best = 0 \/ detour_score(car_location, FullBoosts[i], current_target)
                          < detour_score(car_location, FullBoosts[best], current_target)
         THEN best_boost_from(i + 1, i, active, car_location, current_target, critical_defense)
    ELSE best_boost_from(i + 1, best, active, car_location, current_target, critical_defense)

\* choose_best_boost: 0 stands for None, i for the i-th full pad
choose_best_boost(active, car_location, current_target, ball_location, own_goal) ==
    LET critical_defense == dist(flat(ball_location), flat(own_goal)) < 1800
    IN  best_boost_from(1, 0, active, car_location, current_target, critical_defense)

\* time_remaining is None or [seconds |-> centiseconds]
choose_desired_speed(distance, aligned, time_remaining) ==
    IF time_remaining # None /\ time_remaining.seconds > 0
    THEN Max(700, Min((distance * 100) \div Max(time_remaining.seconds, 10), 2200))
    ELSE IF distance < 800 THEN Max(700, (distance * 12) \div 10)
    ELSE IF aligned THEN 1900 ELSE 1500

\* line 38: there is a sequence to continue
sequence_never_resumed(seq) == FALSE

sequence_running(seq) == seq # None /\ ~seq.done

\* line 53: airborne close to the ground: level the car out and return
needs_recovery(p) == ~p.has_wheel_contact /\ p.car_location.z < 200

\* line 64: the flip is begun
may_begin_flip(seq, p) ==
    /\ dist(flat(p.car_location), flat(p.ball_location)) < 1600
    /\ seq = None

\* what a call that never reaches the tactical pipeline has evaluated of it
NotEvaluated == None

offset_distance_inverted(intercept, ball_prediction) ==
    IF intercept # 0 /\ ~(ball_prediction.slices[intercept].location.z < 150)
    THEN 320 ELSE 240

\* line 85
offset_distance_of(intercept, ball_prediction) ==
    IF intercept # 0 /\ ball_prediction.slices[intercept].location.z < 150
    THEN 320 ELSE 240

\* line 74
opponent_goal_y(self_team) == IF self_team = 0 THEN 5120 ELSE -5120

\* lines 102-129: steering, speed control and ball control toward
\* target_location; the command returned and the values computed on the way
tactical_drive(p, intercept, shadow_target, target_position, approach_direction, offset_distance, offense_target, chosen_boost, target_location) ==
    LET car_location == p.car_location
        car_velocity == VScale(forward(p.yaw), p.car_speed)
        ball_location == p.ball_location
        target_slice == IF chosen_boost # 0 THEN 0 ELSE intercept
        relative_target == relative_location(car_location, p.yaw, target_location)
        distance_to_target == dist(flat(car_location), flat(target_location))
        time_remaining ==
            IF target_slice # 0
            THEN [seconds |-> p.ball_prediction.slices[target_slice].time_ahead]
            ELSE None
        desired_speed ==
            choose_desired_speed(distance_to_target,
                                 abs_angle_less(relative_target, 2553, 10000),
                                 time_remaining)
        forward_speed == dot(car_velocity, forward(p.yaw))
        speed_error == desired_speed - forward_speed
        aligned35 == abs_angle_less(relative_target, 3650, 10000)
        relative_ball == relative_location(car_location, p.yaw, ball_location)
        low_and_centered ==
            relative_ball.x > -30 /\ Abs(relative_ball.y) < 150 /\ ball_location.z < 200
        jumps == p.has_wheel_contact /\ distance_to_target < 160 /\ ball_location.z < 120
        controls ==
            [SimpleControllerState EXCEPT
                !.steer = steer_toward_target(p, target_location),
                !.throttle = Max(Min(speed_error * 2, 1000), -1000),
                !.boost = speed_error > 400 /\ aligned35 /\ desired_speed > 1200,
                !.handbrake = abs_angle_greater(relative_target, 29271, 10000)
                                /\ Length2(car_velocity) < 1000 * 1000,
                !.jump = jumps,
                !.pitch = IF ~jumps /\ low_and_centered /\ aligned35 THEN -150 ELSE 0]
    IN  [controls |-> controls,
         target |-> target_location,
         eval |-> [time_remaining |-> time_remaining, intercept |-> intercept,
                   shadow_target |-> shadow_target,
                   target_position |-> target_position,
                   approach_direction |-> approach_direction,
                   offset_distance |-> offset_distance, offense_target |-> offense_target,
                   chosen_boost |-> chosen_boost,
                   target_location |-> target_location,
                   distance_to_target |-> distance_to_target,
                   desired_speed |-> desired_speed,
                   low_and_centered |-> low_and_centered]]

\* lines 89-95: with little boost (and no kickoff) the best pad, if there is
\* one, replaces the target
tactical_route(self_team, p, intercept, shadow_target, target_position, approach_direction, offset_distance, offense_target) ==
    LET own_goal == Vec3(0, -opponent_goal_y(self_team), 0)
        chosen_boost ==
            IF p.boost < 25 /\ ~is_kickoff(p)
            THEN choose_best_boost(p.pads_active, p.car_location, offense_target,
                                   p.ball_location, own_goal)
            ELSE 0
    IN  tactical_drive(p, intercept, shadow_target, target_position, approach_direction,
                       offset_distance, offense_target, chosen_boost,
                       IF chosen_boost # 0 THEN FullBoosts[chosen_boost]
                       ELSE offense_target)

\* lines 71-87: the aim base (intercept sample, else the ball; the shadow
\* point when there is one) and the point offset_distance short of it
tactical_aim(self_team, p, intercept, shadow_target) ==
    LET target_position0 ==
            IF intercept # 0 THEN p.ball_prediction.slices[intercept].location
            ELSE p.ball_location
        opponent_goal == Vec3(0, opponent_goal_y(self_team), 0)
        own_goal == Vec3(0, -opponent_goal_y(self_team), 0)
        target_position == IF shadow_target # None THEN shadow_target ELSE target_position0
        approach_goal == IF shadow_target = None THEN opponent_goal ELSE own_goal
        approach_direction0 == flat(VSub(approach_goal, target_position))
        approach_direction ==
            IF Length2(approach_direction0) < 1
            THEN Vec3(0, IF opponent_goal_y(self_team) > 0 THEN 1 ELSE -1, 0)
            ELSE approach_direction0
        offset_distance == offset_distance_of(intercept, p.ball_prediction)
        offense0 == VSub(target_position, rescale(approach_direction, offset_distance))
    IN  tactical_route(self_team, p, intercept, shadow_target, target_position,
                       approach_direction, offset_distance,
                       [offense0 EXCEPT !.z = Max(0, offense0.z)])

\* lines 68-129: the tactical pipeline, as the command it returns and the
\* values it computed on the way
tactical(self_team, p) ==
    tactical_aim(self_team, p,
                 select_intercept_slice(p.ball_prediction, p.car_location,
                                        VScale(forward(p.yaw), p.car_speed)),
                 choose_shadow_position(p.ball_location, p.ball_velocity,
                                        Vec3(0, -opponent_goal_y(self_team), 0)))

\* lines 61-63: the controls of the kickoff dash
kickoff_controls(p) ==
    LET steer == steer_toward_target(p, p.ball_location)
    IN  [SimpleControllerState EXCEPT
            !.steer = steer, !.throttle = 1000, !.boost = Abs(steer) < 200]

\* lines 54-56: the controls of the recovery
recovery_controls(p) ==
    [SimpleControllerState EXCEPT
        !.roll = -(1000 * right(p.yaw).z), !.pitch = -(1000 * forward(p.yaw).z),
        !.throttle = 500]

\* lines 172-186: begin_front_flip, as the new sequence after its first tick
begin_front_flip == sequence_tick(Sequence(FlipSteps), 0)

\* get_output(packet), dt after the previous call: the branch taken, the
\* command returned, the point steered at, the new self.active_sequence and
\* the values the tactical pipeline computed (NotEvaluated when not run).
get_output(self_seq, self_team, p, dt) ==
    LET resumed ==
            IF sequence_running(self_seq) THEN sequence_tick(self_seq, dt)
            ELSE [controls |-> None, seq |-> self_seq, index |-> 0]
        t == tactical(self_team, p)
    IN  IF resumed.controls # None
        THEN [controls |-> resumed.controls, seq |-> resumed.seq,
              target |-> None, eval |-> NotEvaluated, branch |-> "sequence"]
        ELSE IF needs_recovery(p)
        THEN [controls |-> recovery_controls(p), seq |-> resumed.seq,
              target |-> None, eval |-> NotEvaluated, branch |-> "recovery"]
        ELSE IF is_kickoff(p)
        THEN IF may_begin_flip(resumed.seq, p)
             THEN [controls |-> begin_front_flip.controls, seq |-> begin_front_flip.seq,
                   target |-> None, eval |-> NotEvaluated,
                   branch |-> "flip"]
             ELSE [controls |-> kickoff_controls(p), seq |-> resumed.seq,
                   target |-> p.ball_location, eval |-> NotEvaluated,
                   branch |-> "kickoff"]
        ELSE [controls |-> t.controls, seq |-> resumed.seq, target |-> t.target,
              eval |-> t.eval, branch |-> "tactical"]

(***************************************************************************)
(* Inputs                                                                   *)
(***************************************************************************)
NumSlices == 17
SliceDt == 25
MaxSlices == 9
MaxTickDt == 70

Origin == Vec3(0, 0, 0)
Stationary == Vec3(0, 0, 0)

\* BallPrediction: num_slices samples, each at time_ahead centiseconds after
\* the packet's seconds_elapsed
BallPrediction(slices) == [slices |-> slices, num_slices |-> Len(slices)]

\* a ball prediction for a ball that stays where it is
StaticPrediction(location) ==
    BallPrediction([i \in 1..NumSlices |->
                       [location |-> location, time_ahead |-> (i - 1) * SliceDt]])

Packet(ra, cl, yw, cs, wc, bo, bl, bv, pa, pr) ==
    [boost |-> bo, yaw |-> yw, car_location |-> cl, round_active |-> ra,
     ball_location |-> bl, car_speed |-> cs, ball_prediction |-> IF pr THEN StaticPrediction(bl) ELSE None,
     ball_velocity |-> bv, has_wheel_contact |-> wc,
     pads_active |-> pa]

CarLocations ==
    {Origin, Vec3(0, 2700, 17), Vec3(0, 2000, 17), Vec3(3584, 100, 17),
     Vec3(0, -4000, 17), Vec3(0, 0, 300)}

BallLocations ==
    {Vec3(0, 0, 93), Vec3(10, 0, 93), Vec3(0, 3000, 0), Vec3(0, 3000, 200),
     Vec3(0, 3000, 300), Vec3(0, -4820, 93), Vec3(1500, -3120, 93)}

BallVelocities == {Stationary, Vec3(0, -500, 0), Vec3(0, 500, 0)}

PadsActive == {{}, {4}, {6}, {1, 2, 3, 4, 5, 6}}

\* the packets of the tick loop: kickoffs and play, car close to or far from
\* the ball, on its wheels or not
LoopCarLocations == {Vec3(0, -1500, 17), Vec3(0, -4000, 17)}

LoopBallLocations == {Vec3(0, 0, 93), Vec3(0, 3000, 93)}

Dts == {5, 30, 60}

(***************************************************************************)
(* State machine                                                            *)
(***************************************************************************)
NoOutput ==
    [controls |-> None, dt |-> 0, target |-> None, eval |-> NotEvaluated,
     branch |-> "none", pre_seq |-> None]

Init ==
    /\ team \in {0, 1}
    /\ active_sequence = None
    /\ pkt = None
    /\ out = NoOutput
    /\ in_kickoff = FALSE
    /\ run_close = FALSE
    /\ run_flips = 0

\* One call of get_output on packet p, dt after the previous call.
GetOutput(p, dt) ==
    \E r \in {get_output(active_sequence, team, p, dt)} :
        LET k == p.round_active /\ p.ball_location.x = 0 /\ p.ball_location.y = 0
            close == /\ k
                     /\ p.has_wheel_contact
                     /\ Dist2(flat(p.car_location), flat(p.ball_location)) < 1600 * 1600
                     /\ (active_sequence = None \/ active_sequence.done)
            flips == IF r.branch = "flip" THEN 1 ELSE 0
        IN  /\ active_sequence' = r.seq
            /\ pkt' = p
            /\ out' = [controls |-> r.controls, dt |-> dt,
                       target |-> r.target, eval |-> r.eval, branch |-> r.branch,
                       pre_seq |-> active_sequence]
            /\ in_kickoff' = k
            /\ run_close' = IF ~k THEN run_close
                            ELSE IF in_kickoff THEN run_close \/ close ELSE close
            /\ run_flips' = IF ~k THEN run_flips
                            ELSE IF in_kickoff THEN Min(run_flips + flips, 2) ELSE flips
            /\ UNCHANGED team

\* The tick loop: the framework calls get_output again and again.
Next ==
    \E ra \in BOOLEAN, cl \in LoopCarLocations, wc \in BOOLEAN,
       bl \in LoopBallLocations, dt \in Dts :
        GetOutput(Packet(ra, cl, "N", 0, wc, 50, bl, Stationary, {}, FALSE), dt)

Spec == Init /\ [][Next]_vars

\* A single call of get_output, on every packet.
FirstCall ==
    /\ pkt = None
    /\ \E ra \in BOOLEAN, cl \in CarLocations, yw \in {"N", "E", "S"}, cs \in {0, 1500},
          wc \in BOOLEAN, bo \in {10, 50}, bl \in BallLocations, bv \in BallVelocities,
          pa \in PadsActive, pr \in BOOLEAN :
            GetOutput(Packet(ra, cl, yw, cs, wc, bo, bl, bv, pa, pr), 0)

\* a flip sequence that has run to its end, as the tick loop leaves it
FinishedFlip == sequence_tick(sequence_tick(begin_front_flip.seq, 60).seq, 60).seq

\* One call from every state without a running sequence: none started yet,
\* or the flip of an earlier kickoff finished.
InitTactical ==
    /\ team \in {0, 1}
    /\ active_sequence \in {None, FinishedFlip}
    /\ pkt = None
    /\ out = NoOutput
    /\ in_kickoff = FALSE
    /\ run_close = FALSE
    /\ run_flips = 0

SpecTactical == InitTactical /\ [][FirstCall]_vars

\* The executor alone: a fresh flip sequence, ticked at any pace.
InitSeq ==
    /\ team \in {0, 1}
    /\ active_sequence = Sequence(FlipSteps)
    /\ pkt = None
    /\ out = [controls |-> None, index |-> 0, branch |-> "new"]
    /\ in_kickoff = FALSE
    /\ run_close = FALSE
    /\ run_flips = 0

SeqTick(dt) ==
    LET r == sequence_tick(active_sequence, dt)
    IN  /\ active_sequence' = r.seq
        /\ out' = [controls |-> r.controls, index |-> r.index, branch |-> "tick"]
        /\ UNCHANGED <<team, pkt, in_kickoff, run_close, run_flips>>

NextSeq == \E dt \in 0..MaxTickDt : SeqTick(dt)

SpecSeq == InitSeq /\ [][NextSeq]_vars

\* The interception selector alone, on every trajectory of up to MaxSlices
\* samples, each sample high, near or far.
SliceKinds == {Vec3(0, 1000, 300), Vec3(0, 1000, 93), Vec3(0, 5000, 93)}

Trajectory(n, f) ==
    BallPrediction([i \in 1..n |-> [location |-> f[i], time_ahead |-> (i - 1) * SliceDt]])

InitIntercept ==
    /\ team = 0
    /\ active_sequence = None
    /\ \E cs \in {0, 1500} :
          \/ pkt = [yaw |-> "N", car_location |-> Origin, car_speed |-> cs,
                    ball_prediction |-> None]
          \/ \E n \in 0..MaxSlices : \E f \in [1..n -> SliceKinds] :
                pkt = [yaw |-> "N", car_location |-> Origin,
                       car_speed |-> cs, ball_prediction |-> Trajectory(n, f)]
    /\ out = NoOutput
    /\ in_kickoff = FALSE
    /\ run_close = FALSE
    /\ run_flips = 0

SelectIntercept ==
    /\ out = NoOutput
    /\ out' = [intercept |-> select_intercept_slice(pkt.ball_prediction, pkt.car_location,
                                 VScale(forward(pkt.yaw), pkt.car_speed)),
               branch |-> "select"]
    /\ UNCHANGED <<team, active_sequence, pkt, in_kickoff, run_close, run_flips>>

SpecIntercept == InitIntercept /\ [][SelectIntercept]_vars

(***************************************************************************)
(* Properties                                                               *)
(***************************************************************************)
KickoffPacket(p) == p.round_active /\ p.ball_location.x = 0 /\ p.ball_location.y = 0

Running(seq) == seq # None /\ ~seq.done

\* C1: the flip is begun exactly once in every kickoff in which the car comes
\* close to the ball on its wheels -- checked when the kickoff run has ended,
\* for runs in which the car was close while no sequence was running.
C1_FlipOncePerKickoff ==
    /\ run_flips <= 1
    /\ (~in_kickoff /\ run_close) => run_flips = 1

\* C2: a running sequence whose tick yields a command is never interrupted:
\* the call returns exactly that command, evaluates nothing of the kickoff,
\* recovery or tactical branches, keeps the same sequence, and a new sequence is
\* begun only when none is running.
C2_SequenceNotInterrupted ==
    LET pre == out.pre_seq
        e == pre.elapsed + out.dt
    IN  /\ (Running(pre) /\ e <= SumDurations(pre.steps, Len(pre.steps))) =>
              /\ out.branch = "sequence"
              /\ out.controls = sequence_tick(pre, out.dt).controls
              /\ out.controls # None
              /\ out.target = None
              /\ out.eval = NotEvaluated
              /\ active_sequence = [pre EXCEPT !.elapsed = e]
        /\ out.branch = "flip" => ~Running(pre)

C2_Witness ==
    /\ out.branch = "sequence"
    /\ out.controls = FlipC
    /\ KickoffPacket(pkt)
    /\ pkt.has_wheel_contact
    /\ Dist2(flat(pkt.car_location), flat(pkt.ball_location)) < 1600 * 1600

\* the cumulative-duration windows of [(0.05,A),(0.05,B),(0.2,C),(0.8,D)]
FlipWindows ==
    <<[controls |-> FlipA, lo |-> 0, hi |-> 5], [controls |-> FlipB, lo |-> 5, hi |-> 10],
      [controls |-> FlipC, lo |-> 10, hi |-> 30], [controls |-> FlipD, lo |-> 30, hi |-> 110]>>

C3_General ==
    LET e == active_sequence.elapsed
    IN  /\ \A i \in 1..4 :
              (FlipWindows[i].lo < e /\ e < FlipWindows[i].hi) =>
                  out.index = i /\ out.controls = FlipWindows[i].controls
        /\ e > 110 => out.controls = None /\ out.index = 0 /\ active_sequence.done

C3_FirstFour ==
    LET e == active_sequence.elapsed
    IN  /\ e = 0 => out.index = 1 /\ out.controls = FlipA
        /\ e = 6 => out.index = 2 /\ out.controls = FlipB
        /\ e = 20 => out.index = 3 /\ out.controls = FlipC
        /\ e = 90 => out.index = 4 /\ out.controls = FlipD

OwnGoal == Vec3(0, IF team = 0 THEN -5120 ELSE 5120, 0)

Recovering(p) == ~p.has_wheel_contact /\ p.car_location.z < 200

CloseToBall(p) == Dist2(flat(p.car_location), flat(p.ball_location)) < 1600 * 1600

\* C4, as stated: with no active sequence, round active, ball stationary and
\* |ball.x| < 50, |ball.y| < 50, the call steers at the ball's location,
\* whatever the rest of the packet.
C4_Original ==
    (/\ out.branch # "none"
     /\ ~Running(out.pre_seq)
     /\ pkt.round_active
     /\ pkt.ball_velocity = Stationary
     /\ Abs(pkt.ball_location.x) < 50 /\ Abs(pkt.ball_location.y) < 50)
        => out.target = pkt.ball_location

\* C4, amended: with no running sequence and the car on its wheels or at
\* least 200 high, round active and the ball exactly at x = 0, y = 0 (moving
\* or not), the call takes the kickoff branch whatever the boost level, the
\* pads, the prediction and the ball's velocity: it steers at the ball's
\* location with throttle 1.0 and evaluates nothing of the tactical pipeline,
\* or -- exactly when the car is within 1600 of the ball and no sequence was
\* ever started -- it begins the flip and returns the flip's first command.
C4_KickoffDominates ==
    (/\ out.branch # "none"
     /\ ~Running(out.pre_seq)
     /\ ~Recovering(pkt)
     /\ pkt.round_active
     /\ pkt.ball_location.x = 0 /\ pkt.ball_location.y = 0)
        => /\ out.eval = NotEvaluated
           /\ IF CloseToBall(pkt) /\ out.pre_seq = None
              THEN /\ out.branch = "flip"
                   /\ out.controls = FlipA
                   /\ active_sequence = Sequence(FlipSteps)
              ELSE /\ out.branch = "kickoff"
                   /\ out.target = pkt.ball_location
                   /\ out.controls.steer = steer_toward_target(pkt, pkt.ball_location)
                   /\ out.controls.throttle = 1000
                   /\ active_sequence = out.pre_seq

C4_Witness ==
    /\ out.branch = "kickoff"
    /\ out.target = pkt.ball_location
    /\ pkt.boost < 25
    /\ pkt.pads_active # {}
    /\ pkt.ball_velocity # Stationary
    /\ pkt.ball_prediction # None

\* the candidates of the resource routing, as the code filters them
CriticalDefense == Dist2(flat(pkt.ball_location), flat(OwnGoal)) < 1800 * 1800

PadDist2(i) == Dist2(flat(pkt.car_location), flat(FullBoosts[i]))

Candidates ==
    {i \in pkt.pads_active :
        /\ PadDist2(i) <= 5000 * 5000
        /\ CriticalDefense => PadDist2(i) <= 1200 * 1200}

\* the candidates as the claim has them: any active full pad, within the tight
\* radius under active defense
ClaimedCandidates ==
    {i \in pkt.pads_active : CriticalDefense => PadDist2(i) <= 1200 * 1200}

Score(i) == detour_score(pkt.car_location, FullBoosts[i], out.eval.offense_target)

RoutedTo(cands) ==
    /\ out.eval.chosen_boost \in cands
    /\ \A i \in cands : Score(out.eval.chosen_boost) <= Score(i)
    /\ out.target = FullBoosts[out.eval.chosen_boost]
    /\ out.eval.target_location = out.target

NeverOverridesKickoff ==
    out.branch \in {"kickoff", "flip"} =>
        out.eval = NotEvaluated /\ out.target \in {pkt.ball_location, None}

\* C5, as stated
C5_Original ==
    /\ NeverOverridesKickoff
    /\ (out.branch = "tactical" /\ pkt.boost < 25 /\ ClaimedCandidates # {})
          => RoutedTo(ClaimedCandidates)

\* C5, amended: resource routing never overrides kickoff; when the tactical
\* pipeline runs (so it is not kickoff), own boost is below 25 and at least one
\* active full pad is within 5000 of the car (and within 1200 under active
\* defense), the final target is the location of such a pad of minimal
\* distance_from_vehicle + 0.35 * distance_from_pad_to_current_target and the
\* time budget is dropped; otherwise the offense/shadow aim point stands.
C5_ResourceRouting ==
    /\ NeverOverridesKickoff
    /\ (out.branch = "tactical" /\ pkt.boost < 25 /\ Candidates # {})
          => RoutedTo(Candidates) /\ out.eval.time_remaining = None
    /\ (out.branch = "tactical" /\ ~(pkt.boost < 25 /\ Candidates # {}))
          => /\ out.eval.chosen_boost = 0
             /\ out.target = out.eval.offense_target

C5_Witness ==
    /\ out.branch = "tactical"
    /\ pkt.boost < 25
    /\ Cardinality(Candidates) >= 2
    /\ out.eval.chosen_boost = 4
    /\ out.target = FullBoosts[4]
    /\ out.target # out.eval.offense_target

\* C6: the slice select_intercept_slice returns
Accepted(i) ==
    LET sl == pkt.ball_prediction.slices[i]
    IN  /\ sl.location.z <= 250
        /\ travel_time_within(pkt.car_location, pkt.car_speed, sl.location, sl.time_ahead)

Scanned(i) == (i - 1) % 8 = 0

SliceNumbers ==
    IF pkt.ball_prediction = None THEN {} ELSE 1..pkt.ball_prediction.num_slices

Scenario ==
    /\ out.branch # "none"
    /\ team = 0
    /\ pkt.car_location = Origin
    /\ pkt.ball_location = Vec3(0, 3000, 0)
    /\ pkt.ball_velocity = Stationary
    /\ pkt.round_active

\* C7, as stated: the call takes the kickoff branch, its target is
\* (0,3000,0) and the throttle returned is 1.0.
C7_Original ==
    Scenario =>
        /\ out.branch = "kickoff"
        /\ out.target = Vec3(0, 3000, 0)
        /\ out.controls.throttle = 1000

\* C7, amended: in the scenario, with the vehicle on its wheels and no
\* sequence running, the call does not take the kickoff branch (the ball is not
\* at x = 0, y = 0): the tactical pipeline runs with aim base (0,3000,0); its
\* target is the point 240 short of it, (0,2760,0) -- 320 short, (0,2680,0),
\* when a low intercept sample was selected -- unless a boost pad is routed
\* to; the throttle returned is 1.0 when the vehicle is at rest.
C7_ScenarioIsTactical ==
    (Scenario /\ pkt.has_wheel_contact) =>
        /\ out.branch = "tactical"
        /\ out.eval.target_position = Vec3(0, 3000, 0)
        /\ out.eval.offense_target =
              IF out.eval.intercept # 0 THEN Vec3(0, 2680, 0) ELSE Vec3(0, 2760, 0)
        /\ out.eval.chosen_boost = 0 => out.target = out.eval.offense_target
        /\ out.target # Vec3(0, 3000, 0)
        /\ pkt.car_speed = 0 => out.controls.throttle = 1000

C7_Witness ==
    /\ Scenario
    /\ pkt.has_wheel_contact
    /\ out.branch = "tactical"
    /\ out.target = Vec3(0, 2760, 0)
    /\ out.controls.throttle = 1000

\* the ball in the car's frame, as line 122 has it
RelativeBall == relative_location(pkt.car_location, pkt.yaw, pkt.ball_location)

LowAndCentered ==
    RelativeBall.x > -30 /\ Abs(RelativeBall.y) < 150 /\ pkt.ball_location.z < 200

CloseToTarget == Dist2(flat(pkt.car_location), flat(out.target)) < 160 * 160

\* C8: in every command of the tactical pipeline, jump is set only if the ball
\* is low and centered in front of the vehicle and the vehicle has wheel
\* contact and is close to the target; when the ball is low and centered but
\* the vehicle is not close, there is no jump and a slight pitch-down instead.
C8_JumpOnlyUnderBall ==
    out.branch = "tactical" =>
        /\ out.controls.jump =>
              LowAndCentered /\ pkt.has_wheel_contact /\ CloseToTarget
        /\ (LowAndCentered /\ ~CloseToTarget) =>
              ~out.controls.jump /\ out.controls.pitch = -150

\* the first half of C8 alone: jump only with the ball low and centered in front
C8_JumpImpliesCentered ==
    (out.branch = "tactical" /\ out.controls.jump) => LowAndCentered

\* the position the stand-off is taken from is that of the selected intercept
\* sample, else the ball's current location
Intercepted == out.eval.intercept # 0

TargetedBallHeight ==
    IF Intercepted THEN pkt.ball_prediction.slices[out.eval.intercept].location.z
    ELSE pkt.ball_location.z

StandOff == dist(flat(out.eval.offense_target), flat(out.eval.target_position))

\* C9, as stated: the stand-off is 320 exactly when the targeted ball position
\* is high, 240 otherwise.
C9_Original ==
    out.branch = "tactical" =>
        out.eval.offset_distance = IF TargetedBallHeight >= 150 THEN 320 ELSE 240

\* C9, amended: the stand-off is 320 exactly when an intercept sample was
\* selected and its height is below 150 (the targeted ball position is low),
\* and 240 otherwise, including whenever the intercept is absent and the
\* current ball location is used.
C9_StandOff ==
    out.branch = "tactical" =>
        /\ out.eval.offset_distance =
              IF Intercepted /\ TargetedBallHeight < 150 THEN 320 ELSE 240
        /\ Abs(StandOff - out.eval.offset_distance) <= 2

C9_Witness ==
    /\ out.branch = "tactical"
    /\ Intercepted
    /\ TargetedBallHeight < 150
    /\ out.eval.offset_distance = 320
    /\ StandOff = 320

\* C10: the shadow point lies on the horizontal own-goal-to-ball line between
\* the own goal and the ball, offset from the ball toward the goal by
\* clamp(0.45 * goal-to-ball distance, 650, 1200); never on the far side of
\* the own goal from the ball.
C10_ShadowBetweenGoalAndBall ==
    (out.branch = "tactical" /\ out.eval.shadow_target # None) =>
        LET s == flat(out.eval.shadow_target)
            b == flat(pkt.ball_location)
            g == flat(OwnGoal)
            d == dist(b, g)
        IN  /\ out.eval.shadow_target.z = 0
            /\ (s.x - g.x) * (b.y - g.y) = (s.y - g.y) * (b.x - g.x)
            /\ dist(b, s) = Max(650, Min(1200, (d * 45) \div 100))
            /\ dot(VSub(s, g), VSub(b, g)) >= 0
            /\ dot(VSub(b, s), VSub(b, g)) >= 0

\* the part of C10 the code keeps: on the line, at the clamped offset from the ball
C10_OffsetOnLine ==
    (out.branch = "tactical" /\ out.eval.shadow_target # None) =>
        LET s == flat(out.eval.shadow_target)
            b == flat(pkt.ball_location)
            g == flat(OwnGoal)
        IN  /\ (s.x - g.x) * (b.y - g.y) = (s.y - g.y) * (b.x - g.x)
            /\ dist(b, s) = Max(650, Min(1200, (dist(b, g) * 45) \div 100))
            /\ dot(VSub(b, s), VSub(b, g)) >= 0

====
